---- MODULE Spec2Model ----
(***************************************************************************)
(* Model of the drag-and-drop project board: the ProjectState registry     *)
(* (listeners, projects, addProject, moveProject, updateListeners), the    *)
(* ProjectList views that subscribe to it, the ProjectInput form with its  *)
(* validate gate, and the drag handlers of ProjectItem and ProjectList.    *)
(*                                                                         *)
(* Project objects live in a heap and arrays hold references to them, as   *)
(* in JavaScript: Array.prototype.slice copies the array, not the objects. *)
(* Strings that the code inspects (trim, length, unary plus) are sequences *)
(* of one-character strings; ids are only compared and stay atoms.         *)
(***************************************************************************)
EXTENDS Integers, Sequences, FiniteSets, TLC

VARIABLES
    heap,             \* the Project objects ever constructed; a reference is an index
    projects,         \* ProjectState.projects: array of references
    listeners,        \* State.listeners: array of callbacks, in registration order
    assignedProjects, \* ProjectList.assignedProjects of the "active" and "finished" list
    received,         \* the array each externally registered callback holds
    addCalls,         \* number of addProject invocations so far
    trace,            \* events of the last command: begin, applied, call, ret, end
    cmd,              \* the last command and its arguments
    pre,              \* contents of the registry before the last command
    prior,            \* the command before the last one, when it was a move that changed a status
    form,             \* values of the title, description and people inputs
    drag,             \* the drag gesture: "idle", "dragging" or "dropped"
    dataTransfer,     \* event.dataTransfer of the gesture in progress
    dragged,          \* the project of the card the gesture started on, 0 if none
    droppable         \* whether the list's <ul> has the class "droppable"

registryVars == <<heap, projects, listeners, assignedProjects, received, addCalls>>
dragVars == <<drag, dataTransfer, dragged, droppable>>
vars == <<registryVars, trace, cmd, pre, prior, form, dragVars>>

----------------------------------------------------------------------------
\* Bounds of the model

MaxProjects == 2
MaxListeners == 4

\* Values Math.random().toString() may return; nothing in the code excludes
\* a value that was returned before.
RandomIds == {"0.1", "0.2"}

\* An id that Math.random().toString() never returns.
StaleIds == {"nonexistent-id"}

ProjectStatus == {"Active", "Finished"}

ListTypes == {"active", "finished"}

\* Callbacks registered from outside the two lists
PassiveCallbacks == {"recorder"}
SnapshotMutators == {"seqMutator", "fieldMutator"}
Reentrant == {"reentrantAdd", "reentrantMove"}
ExternalCallbacks == PassiveCallbacks \cup SnapshotMutators \cup Reentrant
Throwing == {"thrower"}
AllCallbacks == ExternalCallbacks \cup Throwing

----------------------------------------------------------------------------
\* JavaScript values

\* A string value: its characters, each a one-character string
Str(s) == [t |-> "string", s |-> s]

Reverse(s) == [i \in 1..Len(s) |-> s[Len(s) + 1 - i]]

\* Array.prototype.slice(): a new array with the same references
slice(arr) == arr

\* Mutant of push: the array is replaced by one that holds only the new element
pushReplacing(arr, x) == <<x>>

\* Array.prototype.push
push(arr, x) == Append(arr, x)

\* The Project objects an array of references points to
Deref(h, arr) == [i \in 1..Len(arr) |-> h[arr[i]]]

----------------------------------------------------------------------------
\* Strings and numbers as the form code sees them

\* The characters String.prototype.trim and StringToNumber strip: TAB, LF,
\* VT, FF, CR, SP, NBSP, ZWNBSP and the other space separators, LS and PS.
\* A character that cannot stand in a string of this language is written by
\* its code point.
WhiteSpace ==
    {" ", "\t", "\n", "\f", "\r", "", " ", "﻿", " ",
     "U+2000", "U+2001", "U+2002", "U+2003", "U+2004", "U+2005", "U+2006",
     "U+2007", "U+2008", "U+2009", "U+200A", "U+2028", "U+2029", "U+202F",
     "U+205F", "U+3000"}
DigitChars == <<"0", "1", "2", "3", "4", "5", "6", "7", "8", "9">>
HexLower == DigitChars \o <<"a", "b", "c", "d", "e", "f">>
HexUpper == DigitChars \o <<"A", "B", "C", "D", "E", "F">>

IsDigit(c) == \E k \in 1..Len(DigitChars) : DigitChars[k] = c
DigitValue(c) == (CHOOSE k \in 1..Len(DigitChars) : DigitChars[k] = c) - 1

RECURSIVE DigitsValue(_)
DigitsValue(s) ==
    IF s = <<>> THEN 0
    ELSE DigitsValue(SubSeq(s, 1, Len(s) - 1)) * Len(DigitChars) + DigitValue(s[Len(s)])

IsDigits(s) == s # <<>> /\ \A k \in 1..Len(s) : IsDigit(s[k])

\* The position of the first element of s that is in cs, 0 if there is none
IndexOf(s, cs) ==
    IF \E k \in 1..Len(s) : s[k] \in cs
    THEN CHOOSE k \in 1..Len(s) : s[k] \in cs /\ \A j \in 1..(k - 1) : s[j] \notin cs
    ELSE 0

\* The position of the first element of s that is not in cs, 0 if there is none
IndexOfNot(s, cs) ==
    IF \E k \in 1..Len(s) : s[k] \notin cs
    THEN CHOOSE k \in 1..Len(s) : s[k] \notin cs /\ \A j \in 1..(k - 1) : s[j] \in cs
    ELSE 0

TrimStart(s) ==
    LET k == IndexOfNot(s, WhiteSpace)
    IN  IF k = 0 THEN <<>> ELSE SubSeq(s, k, Len(s))

\* String.prototype.trim
Trim(s) == Reverse(TrimStart(Reverse(TrimStart(s))))

\* Number values. A finite number is sign, significant decimal digits and
\* exponent: 0.d1 d2 ... dk * 10^exp, without leading or trailing zero
\* digits; zero has no digits. A number is always a double: the digits are
\* the shortest ones that name it, the digits Number::toString prints.
\* -0 is 0.
NaN == [t |-> "number", kind |-> "nan", neg |-> FALSE, digits |-> <<>>, exp |-> 0]
Infinity(neg) == [t |-> "number", kind |-> "inf", neg |-> neg, digits |-> <<>>, exp |-> 0]
Zero == [t |-> "number", kind |-> "finite", neg |-> FALSE, digits |-> <<>>, exp |-> 0]

Zeros(n) == [i \in 1..n |-> 0]

StripZeros(ds) ==
    LET k == IndexOfNot(ds, {0})
    IN  IF k = 0 THEN <<>> ELSE SubSeq(ds, k, Len(ds))

\* a < b for digit sequences read as fractions 0.a and 0.b
LexLess(a, b) ==
    LET n == IF Len(a) > Len(b) THEN Len(a) ELSE Len(b)
        A(i) == IF i <= Len(a) THEN a[i] ELSE 0
        B(i) == IF i <= Len(b) THEN b[i] ELSE 0
        k == CHOOSE k \in 1..(n + 1) :
                /\ k = n + 1 \/ A(k) # B(k)
                /\ \A j \in 1..(k - 1) : A(j) = B(j)
    IN  k <= n /\ A(k) < B(k)

\* a < b for the digits of two naturals, neither with a leading zero
IntLess(a, b) == Len(a) < Len(b) \/ (Len(a) = Len(b) /\ LexLess(a, b))

\* The digits of a natural plus one
Increment(ds) ==
    IF \A i \in 1..Len(ds) : ds[i] = 9 THEN <<1>> \o Zeros(Len(ds))
    ELSE LET j == CHOOSE j \in 1..Len(ds) :
                    ds[j] # 9 /\ \A i \in (j + 1)..Len(ds) : ds[i] = 9
         IN  [i \in 1..Len(ds) |->
                IF i < j THEN ds[i] ELSE IF i = j THEN ds[i] + 1 ELSE 0]

\* The finite number 0.ds * 10^point of a sign and any decimal digits
Normal(neg, ds, point) ==
    LET lead == StripZeros(ds)
        sig == Reverse(StripZeros(Reverse(lead)))
    IN  IF sig = <<>> THEN Zero
        ELSE [t |-> "number", kind |-> "finite", neg |-> neg, digits |-> sig,
              exp |-> point - (Len(ds) - Len(lead))]

\* Naturals of any size, for the exact arithmetic that rounding to a double
\* needs: limbs in base 10^4, least significant first, the top limb not 0
LimbBase == 10000

TrimLimbs(x) ==
    LET n == Len(x)
        d == CHOOSE d \in 0..n :
                /\ d = n \/ x[n - d] # 0
                /\ \A j \in 0..(d - 1) : x[n - j] = 0
    IN  SubSeq(x, 1, n - d)

\* The limbs of decimal digits, most significant digit first
ToLimbs(ds) ==
    LET L == Len(ds)
        d(j) == IF j >= 1 THEN ds[j] ELSE 0
    IN  TrimLimbs([i \in 1..((L + 3) \div 4) |->
            d(L - 4 * i + 4) + 10 * d(L - 4 * i + 3)
                + 100 * d(L - 4 * i + 2) + 1000 * d(L - 4 * i + 1)])

\* The decimal digits of limbs, without leading zeros
FromLimbs(x) ==
    StripZeros([j \in 1..(4 * Len(x)) |->
        (x[Len(x) - ((j - 1) \div 4)] \div <<1000, 100, 10, 1>>[((j - 1) % 4) + 1]) % 10])

\* Limbs that may be as large as 2 * LimbBase - 1, brought back below
\* LimbBase: a limb takes a carry when the nearest lower limb that is not
\* LimbBase - 1 overflows
Carry(s) ==
    LET into(i) ==
            /\ i > 1
            /\ LET d == CHOOSE d \in 1..(i - 1) :
                            /\ d = i - 1 \/ s[i - d] # LimbBase - 1
                            /\ \A j \in 1..(d - 1) : s[i - j] = LimbBase - 1
               IN  s[i - d] >= LimbBase
    IN  TrimLimbs([i \in 1..Len(s) |-> (s[i] + (IF into(i) THEN 1 ELSE 0)) % LimbBase])

\* x * k, for k up to LimbBase
MulSmall(x, k) ==
    Carry([i \in 1..(Len(x) + 1) |->
            (IF i <= Len(x) THEN (x[i] * k) % LimbBase ELSE 0)
                + (IF i > 1 THEN (x[i - 1] * k) \div LimbBase ELSE 0)])

\* x + a, for a below LimbBase
AddSmall(x, a) ==
    Carry([i \in 1..(Len(x) + 1) |->
            (IF i <= Len(x) THEN x[i] ELSE 0) + (IF i = 1 THEN a ELSE 0)])

\* x + y
AddLimbs(x, y) ==
    Carry([i \in 1..((IF Len(x) > Len(y) THEN Len(x) ELSE Len(y)) + 1) |->
            (IF i <= Len(x) THEN x[i] ELSE 0) + (IF i <= Len(y) THEN y[i] ELSE 0)])

\* x - y, for y not above x: a limb lends when the nearest lower limb whose
\* difference is not 0 has a negative one
SubLimbs(x, y) ==
    LET t(i) == x[i] - (IF i <= Len(y) THEN y[i] ELSE 0)
        lends(i) ==
            /\ i > 1
            /\ LET d == CHOOSE d \in 1..(i - 1) :
                            /\ d = i - 1 \/ t(i - d) # 0
                            /\ \A j \in 1..(d - 1) : t(i - j) = 0
               IN  t(i - d) < 0
    IN  TrimLimbs([i \in 1..Len(x) |->
            (t(i) - (IF lends(i) THEN 1 ELSE 0) + LimbBase) % LimbBase])

\* x * k^t; each half is a value before the other half is taken
RECURSIVE MulPow(_, _, _)
MulPow(x, k, t) ==
    IF t = 0 THEN x
    ELSE IF t = 1 THEN MulSmall(x, k)
    ELSE CHOOSE r \in {MulPow(y, k, t - (t \div 2)) : y \in {MulPow(x, k, t \div 2)}} : TRUE

\* x * 2^t and x * 5^t
TimesPow2(x, t) ==
    MulSmall(MulPow(x, 8192, t \div 13),
             <<1, 2, 4, 8, 16, 32, 64, 128, 256, 512, 1024, 2048, 4096>>[(t % 13) + 1])
TimesPow5(x, t) ==
    MulSmall(MulPow(x, 3125, t \div 5), <<1, 5, 25, 125, 625>>[(t % 5) + 1])

\* 2^52 and 2^53: the significand m of a double m * 2^e is below 2^53, and
\* from 2^52 unless e = -1074
TwoTo52 == <<4, 5, 0, 3, 5, 9, 9, 6, 2, 7, 3, 7, 0, 4, 9, 6>>
TwoTo53 == <<9, 0, 0, 7, 1, 9, 9, 2, 5, 4, 7, 4, 0, 9, 9, 2>>
\* 2^54 to 2^61
AboveTwoTo53 ==
    [j \in 1..8 |-> FromLimbs(MulSmall(ToLimbs(TwoTo53), <<2, 4, 8, 16, 32, 64, 128, 256>>[j]))]

\* The digits of a double, as Number::toString defines them: the fewest
\* digits, at most 17, of a decimal that rounds to this double; of several,
\* the one closest to it, and of two as close, the even one. The decimals
\* that round to the double lie between the midpoints to its neighbours,
\* the midpoints themselves included when the significand is even. Below,
\* V is the digits of the double and LO and HI those of the two midpoints,
\* all of one width and with a leading 0; z is the place of the first digit
\* of V that is not 0.

\* The place of the last of k digits
DigitsEnd(z, k, width) == IF z + k - 1 > width THEN width ELSE z + k - 1

\* V cut after the place end, and the next decimal above that ends there
RoundedDown(V, end) == [i \in 1..Len(V) |-> IF i <= end THEN V[i] ELSE 0]
RoundedUp(V, end) ==
    IF end = Len(V) THEN V ELSE Increment(SubSeq(V, 1, end)) \o Zeros(Len(V) - end)

\* The decimal c rounds to the double
RoundsTo(c, LO, HI, even) ==
    /\ LexLess(LO, c) \/ (even /\ ~LexLess(c, LO))
    /\ LexLess(c, HI) \/ (even /\ ~LexLess(HI, c))

Fits(LO, V, HI, even, end) ==
    \/ RoundsTo(RoundedDown(V, end), LO, HI, even)
    \/ RoundsTo(RoundedUp(V, end), LO, HI, even)

FewestDigits(LO, V, HI, even, z) ==
    CHOOSE k \in 1..17 :
        /\ Fits(LO, V, HI, even, DigitsEnd(z, k, Len(V)))
        /\ \A j \in 1..(k - 1) : ~Fits(LO, V, HI, even, DigitsEnd(z, j, Len(V)))

\* Of the decimals down and up that end at the place end, the one that
\* rounds to the double; of both, the closer to V, and the even one of two
\* as close
Closest(V, end, down, up, downFits, upFits) ==
    IF ~upFits THEN down
    ELSE IF ~downFits THEN up
    ELSE IF LexLess(<<5>>, SubSeq(V, end + 1, Len(V))) THEN up
    ELSE IF LexLess(SubSeq(V, end + 1, Len(V)), <<5>>) \/ V[end] % 2 = 0 THEN down
    ELSE up

ShortestAt(neg, point, LO, V, HI, even, end) ==
    Normal(neg,
           Closest(V, end, RoundedDown(V, end), RoundedUp(V, end),
                   RoundsTo(RoundedDown(V, end), LO, HI, even),
                   RoundsTo(RoundedUp(V, end), LO, HI, even)),
           point)

ShortestIn(neg, point, LO, V, HI, even) ==
    ShortestAt(neg, point, LO, V, HI, even,
               DigitsEnd(IndexOfNot(V, {0}),
                         FewestDigits(LO, V, HI, even, IndexOfNot(V, {0})), Len(V)))

\* lo, v and hi are naturals over 10^scale
ShortestBetween(neg, scale, lo, v, hi, even) ==
    ShortestIn(neg, Len(hi) + 1 - scale,
               Zeros(Len(hi) + 1 - Len(lo)) \o lo,
               Zeros(Len(hi) + 1 - Len(v)) \o v,
               Zeros(Len(hi) + 1 - Len(hi)) \o hi,
               even)

\* x * 2^(e-2), over 10^(2-e) when that is no integer
Widen(x, e) == IF e >= 2 THEN TimesPow2(x, e - 2) ELSE TimesPow5(x, 2 - e)

\* With quarter = 2^(e-2), the double m * 2^e is v = 4m quarters, the
\* midpoint above it 2 quarters more and the one below it 2 less, or 1 less
\* where the doubles below are half as far apart
ShortestAround(neg, m, e, v, quarter) ==
    ShortestBetween(neg, IF e >= 2 THEN 0 ELSE 2 - e,
        FromLimbs(SubLimbs(v, MulSmall(quarter,
                                       IF m = TwoTo52 /\ e > 0 - 1074 THEN 1 ELSE 2))),
        FromLimbs(v),
        FromLimbs(AddLimbs(v, MulSmall(quarter, 2))),
        m[Len(m)] % 2 = 0)

\* The number value of the double m * 2^e, m the digits of its significand
Shortest(neg, m, e) ==
    ShortestAround(neg, m, e, Widen(MulSmall(ToLimbs(m), 4), e), Widen(<<1>>, e))

\* The number value of the significand m1 * 2^e after rounding, which may
\* have carried it to 2^53: Infinity from 2^1024 on
Double(neg, m1, e) ==
    IF m1 = <<>> THEN Zero
    ELSE IF e + (IF m1 = TwoTo53 THEN 1 ELSE 0) > 971 THEN Infinity(neg)
    ELSE Shortest(neg, IF m1 = TwoTo53 THEN TwoTo52 ELSE m1,
                  e + (IF m1 = TwoTo53 THEN 1 ELSE 0))

\* The double nearest to 0.sig * 10^n, ties to the even significand, for
\* digits sig without leading or trailing zeros and n in -323..309.

\* No decimal that lies halfway between two doubles has more than 800
\* significant digits, so beyond them a digit only says that the value is
\* above what comes before
Significant(sig) == SubSeq(sig, 1, IF Len(sig) > 800 THEN 800 ELSE Len(sig))

\* E1, a power of two at least 53 below that of the value, from bounds on
\* log2(10), and not below -1075: the value over 2^E1 has all the bits of
\* the significand and at least one more
BinaryExponent(n) ==
    LET est == IF n >= 1 THEN ((n - 1) * 3321928) \div 1000000
               ELSE 0 - (((1 - n) * 3321929) \div 1000000) - 1
    IN  IF est - 53 < 0 - 1075 THEN 0 - 1075 ELSE est - 53

\* The digits S over 2^E1, as digits P and a shift of the decimal point:
\* S * 2^-E1, or S * 5^E1 with the point E1 places further left
ScaledDigits(S, E1) ==
    FromLimbs(IF E1 < 0 THEN TimesPow2(ToLimbs(S), 0 - E1) ELSE TimesPow5(ToLimbs(S), E1))
Kept(P, shift) == IF Len(P) + shift < 0 THEN 0 ELSE Len(P) + shift
IntegerPart(P, shift) ==
    IF shift >= 0 THEN P \o Zeros(shift) ELSE SubSeq(P, 1, Kept(P, shift))
Dropped(P, shift) == \E i \in (Kept(P, shift) + 1)..Len(P) : P[i] # 0

\* The number k of low bits of M1 to round away: M1 / 2^k is below 2^53
ExtraBits(M1) ==
    CHOOSE k \in 1..8 :
        /\ IntLess(M1, AboveTwoTo53[k])
        /\ \A j \in 1..(k - 1) : ~IntLess(M1, AboveTwoTo53[j])

\* M1 / 2^k is read off fives = M1 * 5^k: its last k digits are the fraction
Quotient(fives, k) == IF Len(fives) > k THEN SubSeq(fives, 1, Len(fives) - k) ELSE <<>>
Remainder(fives, k) ==
    IF Len(fives) >= k THEN SubSeq(fives, Len(fives) - k + 1, Len(fives))
    ELSE Zeros(k - Len(fives)) \o fives

\* m0 and a fraction 0.rem, with more below it when inexact, to the nearest
\* integer, a half to the even one
RoundHalfEven(m0, rem, inexact) ==
    IF \/ LexLess(<<5>>, rem)
       \/ /\ ~LexLess(rem, <<5>>)
          /\ inexact \/ (m0 # <<>> /\ m0[Len(m0)] % 2 = 1)
    THEN Increment(m0)
    ELSE m0

NearestRounded(neg, E1, k, fives, inexact) ==
    Double(neg, RoundHalfEven(Quotient(fives, k), Remainder(fives, k), inexact), E1 + k)
NearestAt(neg, E1, M1, inexact, k) ==
    NearestRounded(neg, E1, k, FromLimbs(MulPow(ToLimbs(M1), 5, k)), inexact)
NearestScaled(neg, E1, P, shift, truncated) ==
    NearestAt(neg, E1, IntegerPart(P, shift), truncated \/ Dropped(P, shift),
              ExtraBits(IntegerPart(P, shift)))
NearestWith(neg, S, n, E1, truncated) ==
    NearestScaled(neg, E1, ScaledDigits(S, E1),
                  IF E1 < 0 THEN n - Len(S) ELSE n - Len(S) - E1, truncated)
Nearest(neg, sig, n) ==
    NearestWith(neg, Significant(sig), n, BinaryExponent(n), Len(sig) > 800)

\* The number value of the decimal 0.ds * 10^point of a sign and any
\* digits: the nearest double, Infinity from 2^1024 - 2^970 on. A decimal
\* of up to 15 significant digits in the range of the normal doubles is
\* the shortest name of its double and stands for it as it is.
Finite(neg, ds, point) ==
    LET lead == StripZeros(ds)
        n == point - (Len(ds) - Len(lead))
        sig == Reverse(StripZeros(Reverse(lead)))
    IN  IF sig = <<>> THEN Zero
        ELSE IF n > 309 THEN Infinity(neg)
        ELSE IF n < 0 - 323 THEN Zero
        ELSE IF Len(sig) <= 15 /\ 0 - 306 <= n /\ n <= 308
        THEN [t |-> "number", kind |-> "finite", neg |-> neg, digits |-> sig, exp |-> n]
        ELSE Nearest(neg, sig, n)

RECURSIVE NatDigits(_)
NatDigits(n) ==
    IF n < 10 THEN <<n>> ELSE NatDigits(n \div 10) \o <<n % 10>>

\* The number value of an integer literal of the code, which is its own
\* double
Num(n) ==
    Normal(n < 0, NatDigits(IF n < 0 THEN 0 - n ELSE n),
           Len(NatDigits(IF n < 0 THEN 0 - n ELSE n)))

\* x < y on numbers; FALSE when one of them is NaN
Rank(x) ==
    IF x.kind = "inf" THEN (IF x.neg THEN 0 - 2 ELSE 2)
    ELSE IF x.digits = <<>> THEN 0
    ELSE IF x.neg THEN 0 - 1 ELSE 1
MagLess(x, y) ==
    x.exp < y.exp \/ (x.exp = y.exp /\ LexLess(x.digits, y.digits))
Less(x, y) ==
    /\ x.kind # "nan"
    /\ y.kind # "nan"
    /\ IF Rank(x) # Rank(y) THEN Rank(x) < Rank(y)
       ELSE IF Rank(x) = 1 THEN MagLess(x, y)
       ELSE IF Rank(x) = 0 - 1 THEN MagLess(y, x)
       ELSE FALSE
\* x >= y and x <= y
GreaterEq(x, y) == x.kind # "nan" /\ y.kind # "nan" /\ ~Less(x, y)
LessEq(x, y) == x.kind # "nan" /\ y.kind # "nan" /\ ~Less(y, x)

\* The value of a character as a digit in a base up to 16, -1 if it is none
RadixDigit(c, base) ==
    LET k == IF IndexOf(HexLower, {c}) # 0 THEN IndexOf(HexLower, {c})
             ELSE IndexOf(HexUpper, {c})
    IN  IF k # 0 /\ k <= base THEN k - 1 ELSE 0 - 1
IsRadixDigits(s, base) ==
    s # <<>> /\ \A k \in 1..Len(s) : RadixDigit(s[k], base) >= 0

\* The natural that up to 13 bits spell, most significant bit first
RECURSIVE BitsValue(_)
BitsValue(bs) ==
    IF bs = <<>> THEN 0
    ELSE 2 * BitsValue(SubSeq(bs, 1, Len(bs) - 1)) + bs[Len(bs)]

\* The number value of digits in base 2, 8 or 16: the digits are bits, the
\* first 53 from the leading 1 are the significand, and the bits after them
\* round it to the nearest double, ties to even. Up to 53 bits are an
\* integer that is its own double.
RadixBits(ds, base, w) ==
    [j \in 1..(w * Len(ds)) |->
        (RadixDigit(ds[((j - 1) \div w) + 1], base) \div <<1, 2, 4, 8>>[w - ((j - 1) % w)]) % 2]

\* The c-th of the 5 groups of 13 bits that the nb bits from place f fill
\* from the right
Chunk(bits, f, nb, c) ==
    BitsValue([i \in 1..13 |->
        IF 13 * (c - 1) + i > 65 - nb THEN bits[f + 13 * (c - 1) + i - (65 - nb) - 1] ELSE 0])

Significand(bits, f, nb) ==
    FromLimbs(
        AddSmall(MulSmall(
            AddSmall(MulSmall(
                AddSmall(MulSmall(
                    AddSmall(MulSmall(
                        AddSmall(<<>>, Chunk(bits, f, nb, 1)),
                        8192), Chunk(bits, f, nb, 2)),
                    8192), Chunk(bits, f, nb, 3)),
                8192), Chunk(bits, f, nb, 4)),
            8192), Chunk(bits, f, nb, 5)))

RadixRounded(bits, f, B, m0) ==
    IF B <= 53 THEN Normal(FALSE, m0, Len(m0))
    ELSE Double(FALSE,
                IF /\ bits[f + 53] = 1
                   /\ \/ \E j \in (f + 54)..Len(bits) : bits[j] = 1
                      \/ m0[Len(m0)] % 2 = 1
                THEN Increment(m0)
                ELSE m0,
                B - 53)

RadixFrom(bits, f) ==
    IF f = 0 THEN Zero
    ELSE RadixRounded(bits, f, Len(bits) - f + 1,
                      Significand(bits, f, IF Len(bits) - f + 1 > 53 THEN 53
                                           ELSE Len(bits) - f + 1))

RadixValue(ds, base) ==
    RadixFrom(RadixBits(ds, base, IF base = 16 THEN 4 ELSE IF base = 8 THEN 3 ELSE 1),
              IndexOfNot(RadixBits(ds, base, IF base = 16 THEN 4 ELSE IF base = 8 THEN 3 ELSE 1),
                         {0}))

\* NonDecimalIntegerLiteral: 0x, 0b, 0o and their digits; NaN if t is none
NonDecimalLiteral(t) ==
    LET base == IF Len(t) < 2 \/ t[1] # "0" THEN 0
                ELSE IF t[2] \in {"x", "X"} THEN 16
                ELSE IF t[2] \in {"o", "O"} THEN 8
                ELSE IF t[2] \in {"b", "B"} THEN 2
                ELSE 0
        ds == SubSeq(t, 3, Len(t))
    IN  IF base # 0 /\ IsRadixDigits(ds, base) THEN RadixValue(ds, base) ELSE NaN

\* ExponentPart without its e: an optional sign and digits
IsExponent(s) ==
    IsDigits(IF s # <<>> /\ Head(s) \in {"+", "-"} THEN Tail(s) ELSE s)

\* point plus the value of the exponent s, for the point of a mantissa:
\* exact from -1000 to 1000, and beyond that a number of the same sign that
\* is at least as far from 0. A string has fewer than 2^30 characters, so
\* the point is within 2^30 of 0, and an exponent of 2 000 000 000 or more,
\* which is every one of more than 10 digits, is not brought back by it.
ExponentValue(point, s) ==
    LET neg == Head(s) = "-"
        ds == IF Head(s) \in {"+", "-"} THEN Tail(s) ELSE s
        first == IndexOfNot(ds, {"0"})
        sig == IF first = 0 THEN <<>> ELSE SubSeq(ds, first, Len(ds))
        far == IF neg THEN 0 - 1000000 ELSE 1000000
        t == IF neg THEN point - 1000000000 ELSE point + 1000000000
    IN  IF Len(sig) <= 9
        THEN (IF neg THEN point - DigitsValue(sig) ELSE point + DigitsValue(sig))
        ELSE IF Len(sig) > 10 \/ Head(sig) # "1" THEN far
        ELSE IF neg THEN (IF t < 0 - 1000 THEN far ELSE t - DigitsValue(Tail(sig)))
        ELSE (IF t > 1000 THEN far ELSE t + DigitsValue(Tail(sig)))

\* StrUnsignedDecimalLiteral with the sign it had: Infinity, or digits with
\* an optional fraction and an optional exponent; NaN if t is none
DecimalLiteral(neg, t) ==
    LET ePos == IndexOf(t, {"e", "E"})
        mant == IF ePos = 0 THEN t ELSE SubSeq(t, 1, ePos - 1)
        expo == IF ePos = 0 THEN <<>> ELSE SubSeq(t, ePos + 1, Len(t))
        dot == IndexOf(mant, {"."})
        int == IF dot = 0 THEN mant ELSE SubSeq(mant, 1, dot - 1)
        frac == IF dot = 0 THEN <<>> ELSE SubSeq(mant, dot + 1, Len(mant))
        allDigits(u) == \A k \in 1..Len(u) : IsDigit(u[k])
        chars == int \o frac
        first == IndexOfNot(chars, {"0"})
        sig == [k \in 1..(Len(chars) - first + 1) |-> DigitValue(chars[first + k - 1])]
        point == Len(int) - (first - 1)
    IN  IF t = <<"I", "n", "f", "i", "n", "i", "t", "y">> THEN Infinity(neg)
        ELSE IF /\ int # <<>> \/ frac # <<>>
                /\ allDigits(int)
                /\ allDigits(frac)
                /\ ePos = 0 \/ IsExponent(expo)
        THEN IF first = 0 THEN Zero
             ELSE Finite(neg, sig, IF ePos = 0 THEN point ELSE ExponentValue(point, expo))
        ELSE NaN

\* StringNumericLiteral of a string without white space around it, nd its
\* value as a NonDecimalIntegerLiteral: the empty string is 0; 0x, 0o and
\* 0b literals without a sign; decimal literals with an optional sign,
\* fraction and exponent; Infinity; anything else is NaN
StringNumericLiteral(t, nd) ==
    IF t = <<>> THEN Zero
    ELSE IF nd # NaN THEN nd
    ELSE DecimalLiteral(Head(t) = "-", IF Head(t) \in {"+", "-"} THEN Tail(t) ELSE t)

\* Unary plus on a string (+enteredPeople), StringToNumber: white space is
\* stripped and the rest is a StringNumericLiteral
ToNumber(s) == StringNumericLiteral(Trim(s), NonDecimalLiteral(Trim(s)))

RECURSIVE NatToString(_)
NatToString(n) ==
    IF n < Len(DigitChars) THEN <<DigitChars[n + 1]>>
    ELSE NatToString(n \div Len(DigitChars)) \o <<DigitChars[(n % Len(DigitChars)) + 1]>>

\* Number::toString of a positive finite number with digits ds and exponent n
PositiveToString(ds, n) ==
    LET k == Len(ds)
        str == [i \in 1..k |-> DigitChars[ds[i] + 1]]
        zeros(m) == [i \in 1..m |-> "0"]
    IN  IF k <= n /\ n <= 21 THEN str \o zeros(n - k)
        ELSE IF 0 < n /\ n <= 21
        THEN SubSeq(str, 1, n) \o <<".">> \o SubSeq(str, n + 1, k)
        ELSE IF 0 - 6 < n /\ n <= 0 THEN <<"0", ".">> \o zeros(0 - n) \o str
        ELSE <<Head(str)>> \o (IF k = 1 THEN <<>> ELSE <<".">> \o Tail(str))
                \o <<"e", IF n - 1 < 0 THEN "-" ELSE "+">>
                \o NatToString(IF n - 1 < 0 THEN 1 - n ELSE n - 1)

\* value.toString() of a string or a number
toString(x) ==
    IF x.t = "string" THEN x.s
    ELSE IF x.kind = "nan" THEN <<"N", "a", "N">>
    ELSE IF x.kind = "inf"
    THEN (IF x.neg THEN <<"-">> ELSE <<>>) \o <<"I", "n", "f", "i", "n", "i", "t", "y">>
    ELSE IF x.digits = <<>> THEN <<"0">>
    ELSE (IF x.neg THEN <<"-">> ELSE <<>>) \o PositiveToString(x.digits, x.exp)

\* Mutant of validate: min is checked as an exclusive bound and minLength
\* against the trimmed length
validateOffByOne(validatableInput) ==
    LET has(key) == key \in DOMAIN validatableInput
        value == validatableInput.value
        v1 == IF has("required") /\ validatableInput.required
              THEN Len(Trim(toString(value))) # 0
              ELSE TRUE
        v2 == IF has("minLength") /\ value.t = "string"
              THEN v1 /\ Len(Trim(value.s)) >= validatableInput.minLength
              ELSE v1
        v3 == IF has("maxLength") /\ value.t = "string"
              THEN v2 /\ Len(value.s) <= validatableInput.maxLength
              ELSE v2
        v4 == IF has("min") /\ value.t = "number"
              THEN v3 /\ Less(Num(validatableInput.min), value)
              ELSE v3
        v5 == IF has("max") /\ value.t = "number"
              THEN v4 /\ LessEq(value, Num(validatableInput.max))
              ELSE v4
    IN  v5

\* validate(validatableInput): the descriptor is a record that has exactly
\* the keys the object literal gives
validate(validatableInput) ==
    LET has(key) == key \in DOMAIN validatableInput
        value == validatableInput.value
        v1 == IF has("required") /\ validatableInput.required
              THEN Len(Trim(toString(value))) # 0
              ELSE TRUE
        v2 == IF has("minLength") /\ value.t = "string"
              THEN v1 /\ Len(value.s) >= validatableInput.minLength
              ELSE v1
        v3 == IF has("maxLength") /\ value.t = "string"
              THEN v2 /\ Len(value.s) <= validatableInput.maxLength
              ELSE v2
        v4 == IF has("min") /\ value.t = "number"
              THEN v3 /\ GreaterEq(value, Num(validatableInput.min))
              ELSE v3
        v5 == IF has("max") /\ value.t = "number"
              THEN v4 /\ LessEq(value, Num(validatableInput.max))
              ELSE v4
    IN  v5

\* The constraints gatherUserInput puts on the three fields
DescriptionMinLength == 5
PeopleMin == 1
PeopleMax == 10

titleValidatable(enteredTitle) ==
    [value |-> Str(enteredTitle), required |-> TRUE]

descriptionValidatable(enteredDescription) ==
    [value |-> Str(enteredDescription), required |-> TRUE,
     minLength |-> DescriptionMinLength]

peopleValidatable(enteredPeople) ==
    [value |-> ToNumber(enteredPeople), required |-> TRUE,
     min |-> PeopleMin, max |-> PeopleMax]

\* Mutant of gatherUserInput: the three checks are joined with && instead of ||
gatherUserInputAnyValid(f) ==
    ~ ( /\ ~validate(titleValidatable(f.title))
        /\ ~validate(descriptionValidatable(f.description))
        /\ ~validate(peopleValidatable(f.people)) )

\* gatherUserInput(): TRUE when it returns the tuple, FALSE when it alerts
\* and returns nothing
gatherUserInput(f) ==
    ~ ( \/ ~validate(titleValidatable(f.title))
        \/ ~validate(descriptionValidatable(f.description))
        \/ ~validate(peopleValidatable(f.people)) )

\* clearInputs()
clearInputs(f) == [title |-> <<>>, description |-> <<>>, people |-> <<>>]

----------------------------------------------------------------------------
\* The registry (ProjectState) as a machine: a record st of the fields the
\* code reads and writes, threaded through the calls of one command.
\*   st.rand   the values the next calls of Math.random().toString() return
\*   st.trace  the events of the command so far
\*   st.thrown whether an exception is propagating

Event(ev, d, k, snap) == [ev |-> ev, d |-> d, k |-> k, snap |-> snap]

Log(st, ev, d, k, snap) == [st EXCEPT !.trace = Append(@, Event(ev, d, k, snap))]

\* An exception leaves the code that runs: a listener's own, or the TypeError
\* of a property read on null
Throw(st, d, k) == [Log(st, "throw", d, k, <<>>) EXCEPT !.thrown = TRUE]

\* Mutant of NewProject: title and description are passed in the wrong order
NewProjectSwapped(id, title, description, numOfPeople) ==
    [id |-> id, title |-> description, description |-> title,
     people |-> numOfPeople, status |-> "Active"]

\* new Project(Math.random().toString(), title, description, numOfPeople, Active)
NewProject(id, title, description, numOfPeople) ==
    [id |-> id, title |-> title, description |-> description,
     people |-> numOfPeople, status |-> "Active"]

\* Mutant of findProject: the last project with the id is taken
findLastProject(st, projectId) ==
    IF \E i \in 1..Len(st.projects) : st.heap[st.projects[i]].id = projectId
    THEN CHOOSE i \in 1..Len(st.projects) :
            /\ st.heap[st.projects[i]].id = projectId
            /\ \A j \in (i + 1)..Len(st.projects) : st.heap[st.projects[j]].id # projectId
    ELSE 0

\* Mutant of findProject: an unknown id falls back to the first project
findProjectOrFirst(st, projectId) ==
    IF \E i \in 1..Len(st.projects) : st.heap[st.projects[i]].id = projectId
    THEN CHOOSE i \in 1..Len(st.projects) :
            /\ st.heap[st.projects[i]].id = projectId
            /\ \A j \in 1..(i - 1) : st.heap[st.projects[j]].id # projectId
    ELSE IF st.projects # <<>> THEN 1 ELSE 0

\* this.projects.find((project) => project.id === projectId): the position of
\* the first project with that id, 0 when find returns undefined
findProject(st, projectId) ==
    IF \E i \in 1..Len(st.projects) : st.heap[st.projects[i]].id = projectId
    THEN CHOOSE i \in 1..Len(st.projects) :
            /\ st.heap[st.projects[i]].id = projectId
            /\ \A j \in 1..(i - 1) : st.heap[st.projects[j]].id # projectId
    ELSE 0

\* project && project.status !== newStatus
shouldMove(st, found, newStatus) ==
    /\ found # 0
    /\ st.heap[st.projects[found]].status # newStatus

\* Mutant of setStatus: the project is taken out and pushed back at the end
setStatusMovingToEnd(st, found, newStatus) ==
    [st EXCEPT !.heap[st.projects[found]].status = newStatus,
               !.projects = Append(SubSeq(@, 1, found - 1)
                                     \o SubSeq(@, found + 1, Len(@)), @[found])]

\* Mutant of setStatus: every project gets the new status
setStatusOfAll(st, found, newStatus) ==
    [st EXCEPT !.heap = [r \in DOMAIN @ |-> [@[r] EXCEPT !.status = newStatus]]]

\* project.status = newStatus
setStatus(st, found, newStatus) ==
    [st EXCEPT !.heap[st.projects[found]].status = newStatus]

\* Mutant of relevantProjects: the finished list keeps everything
relevantProjectsFinishedAll(st, type, items) ==
    LET Keep(r) == IF type = "active"
                   THEN st.heap[r].status = "Active"
                   ELSE TRUE
    IN  SelectSeq(items, Keep)

\* The filter of the listener a ProjectList registers in configure()
relevantProjects(st, type, items) ==
    LET Keep(r) == IF type = "active"
                   THEN st.heap[r].status = "Active"
                   ELSE st.heap[r].status = "Finished"
    IN  SelectSeq(items, Keep)

\* The listener a ProjectList registers: this.assignedProjects = relevantProjects
\* (renderProjects then draws one card per assigned project)
listListener(st, type, items) ==
    [st EXCEPT !.assignedProjects[type] = relevantProjects(st, type, items)]

RECURSIVE fanOut(_, _, _)
RECURSIVE addProject(_, _, _, _, _)
RECURSIVE moveProject(_, _, _, _)

\* One call listenerFn(items) of a registered callback. The two lists run
\* the code of configure(); the other callbacks are callers' listeners:
\*   recorder       keeps the array it was given
\*   seqMutator     items.reverse(); items.pop()
\*   fieldMutator   items[0].people = 0
\*   reentrantAdd   calls addProject when it is given exactly one project
\*   reentrantMove  calls moveProject(items[0].id, Finished)
\*   thrower        throws
invoke(st, fn, items, d) ==
    CASE fn \in ListTypes -> listListener(st, fn, items)
      [] fn = "recorder" -> [st EXCEPT !.received[fn] = items]
      [] fn = "seqMutator" ->
            [st EXCEPT !.received[fn] =
                IF items = <<>> THEN items
                ELSE SubSeq(Reverse(items), 1, Len(items) - 1)]
      [] fn = "fieldMutator" ->
            IF items = <<>> THEN [st EXCEPT !.received[fn] = items]
            ELSE [st EXCEPT !.received[fn] = items,
                            !.heap[items[1]].people = Num(0)]
      [] fn = "reentrantAdd" ->
            LET s1 == [st EXCEPT !.received[fn] = items]
            IN  IF Len(items) = 1
                THEN addProject(s1, <<"R">>, <<"n", "e", "s", "t", "e", "d">>,
                                Num(1), d + 1)
                ELSE s1
      [] fn = "reentrantMove" ->
            LET s1 == [st EXCEPT !.received[fn] = items]
            IN  IF items = <<>> THEN s1
                ELSE moveProject(s1, st.heap[items[1]].id, "Finished", d + 1)
      [] fn = "thrower" -> Throw([st EXCEPT !.received[fn] = items], d, 0)

\* Mutant of fanOut: each call is wrapped in try/catch and the loop goes on
fanOutCatching(st, k, d) ==
    IF k > Len(st.listeners) THEN st
    ELSE LET items == slice(st.projects)
             s1 == Log(st, "call", d, k, Deref(st.heap, items))
             s2 == invoke(s1, st.listeners[k], items, d)
             s3 == Log([s2 EXCEPT !.thrown = FALSE], "ret", d, k, <<>>)
         IN  fanOut(s3, k + 1, d)

\* for (const listenerFn of this.listeners) listenerFn(this.projects.slice()),
\* from the k-th listener on; there is no try/catch, an exception of a
\* listener ends the loop and leaves the function
fanOut(st, k, d) ==
    IF k > Len(st.listeners) THEN st
    ELSE LET items == slice(st.projects)
             s1 == Log(st, "call", d, k, Deref(st.heap, items))
             s2 == invoke(s1, st.listeners[k], items, d)
             s3 == Log(s2, "ret", d, k, <<>>)
         IN  IF s2.thrown THEN s2 ELSE fanOut(s3, k + 1, d)

\* Mutant of updateListeners: the loop starts one listener too late
updateListenersFromSecond(st, d) == fanOut(st, 2, d)

updateListeners(st, d) == fanOut(st, 1, d)

addProject(st, title, description, numOfPeople, d) ==
    LET newProject == NewProject(Head(st.rand), title, description, numOfPeople)
        s0 == Log(st, "begin", d, 0, <<>>)
        s1 == [s0 EXCEPT !.rand = Tail(@),
                         !.heap = Append(@, newProject),
                         !.projects = push(@, Len(s0.heap) + 1),
                         !.addCalls = @ + 1]
        s2 == Log(s1, "applied", d, 0, Deref(s1.heap, s1.projects))
        s3 == updateListeners(s2, d)
    IN  IF s3.thrown THEN s3 ELSE Log(s3, "end", d, 0, <<>>)

moveProject(st, projectId, newStatus, d) ==
    LET found == findProject(st, projectId)
        s0 == Log(st, "begin", d, 0, <<>>)
    IN  IF shouldMove(s0, found, newStatus)
        THEN LET s1 == setStatus(s0, found, newStatus)
                 s2 == Log(s1, "applied", d, 0, Deref(s1.heap, s1.projects))
                 s3 == updateListeners(s2, d)
             IN  IF s3.thrown THEN s3 ELSE Log(s3, "end", d, 0, <<>>)
        ELSE Log(s0, "end", d, 0, <<>>)

\* State.addListener
addListener(st, fn) == [st EXCEPT !.listeners = push(@, fn)]

----------------------------------------------------------------------------
\* The machine in the current state, about to run a command

Machine(rand) ==
    [heap |-> heap, projects |-> projects, listeners |-> listeners,
     assignedProjects |-> assignedProjects, received |-> received,
     addCalls |-> addCalls, trace |-> <<>>, rand |-> rand, thrown |-> FALSE]

Commit(st, command) ==
    /\ heap' = st.heap
    /\ projects' = st.projects
    /\ listeners' = st.listeners
    /\ assignedProjects' = st.assignedProjects
    /\ received' = st.received
    /\ addCalls' = st.addCalls
    /\ trace' = st.trace
    /\ cmd' = command
    /\ pre' = Deref(heap, projects)
    /\ prior' = IF cmd.op = "moveProject" /\ \E j \in 1..Len(trace) : trace[j].ev = "applied"
                THEN [op |-> "moveProject", id |-> cmd.id, status |-> cmd.status, pre |-> pre]
                ELSE [op |-> "other"]

\* Arguments of direct calls of the registry
Titles == {<<"T">>}
Descriptions == {<<"v", "a", "l", "i", "d">>}
People == {Num(1), Num(5)}

\* The values Math.random().toString() returns during one command: one per
\* addProject call the command can make (reentrantAdd makes one more)
NestedAdds == IF \E k \in 1..Len(listeners) : listeners[k] = "reentrantAdd" THEN 1 ELSE 0
RandStreams(n) == [1..n -> RandomIds]

\* What the user may have typed when the form is submitted
FormTitles == {<<>>, <<" ">>, <<"\t">>, <<"T">>}
FormDescriptions ==
    {<<>>, <<" ", " ", " ", " ", " ", " ">>, <<"\n", "\n", "\n", "\n", "\n">>,
     <<"a", "b", "c", "d">>, <<"v", "a", "l", "i", "d">>}
FormPeople ==
    {<<>>, <<"0">>, <<"1", "0">>, <<"1", "1">>, <<"-", "1">>, <<"x">>,
     <<"1", "e", "1">>, <<"1", "e", "2">>, <<"0", "x", "a">>, <<"0", "x", "1", "f">>,
     <<"1", "0", ".", "0">>, <<".", "5">>, <<"\t", "1", "0">>,
     <<"I", "n", "f", "i", "n", "i", "t", "y">>}
FormEntries ==
    {[title |-> t, description |-> <<"v", "a", "l", "i", "d">>, people |-> <<"1", "0">>] :
        t \in FormTitles}
    \cup {[title |-> <<"T">>, description |-> de, people |-> <<"1", "0">>] :
        de \in FormDescriptions}
    \cup {[title |-> <<"T">>, description |-> <<"v", "a", "l", "i", "d">>, people |-> n] :
        n \in FormPeople}
    \cup {[title |-> <<" ">>, description |-> <<"a", "b", "c", "d">>, people |-> <<"x">>]}

\* DataTransfer objects; NoTransfer is event.dataTransfer === null
NoTransfer ==
    [present |-> FALSE, types |-> <<>>, text |-> "", effectAllowed |-> "uninitialized"]
EmptyTransfer ==
    [present |-> TRUE, types |-> <<>>, text |-> "", effectAllowed |-> "uninitialized"]

\* What the environment hands to a dragstart handler: a fresh DataTransfer, or
\* null (DragEvent.dataTransfer is DataTransfer | null)
StartTransfers == {EmptyTransfer, NoTransfer}

\* Payloads of drags that start outside the cards: files from the desktop, and
\* a piece of a page whose first declared type is text/html
ForeignTransfers ==
    {[present |-> TRUE, types |-> <<"Files">>, text |-> "",
      effectAllowed |-> "uninitialized"],
     [present |-> TRUE, types |-> <<"text/html", "text/plain">>, text |-> "0.1",
      effectAllowed |-> "uninitialized"]}

\* dataTransfer.getData("text/plain"): "" when no such data was set
getData(dt) ==
    IF \E k \in 1..Len(dt.types) : dt.types[k] = "text/plain" THEN dt.text ELSE ""

\* ProjectItem.dragStartHandler on a DataTransfer: setData("text/plain",
\* this.project.id); effectAllowed = "move"
dragStartHandler(dt, project) ==
    [dt EXCEPT !.types = IF \E k \in 1..Len(@) : @[k] = "text/plain"
                         THEN @ ELSE Append(@, "text/plain"),
               !.text = project.id,
               !.effectAllowed = "move"]

\* Mutant of acceptsDrag: any declared type is enough
acceptsDragAnyType(dt) ==
    dt.present /\ Len(dt.types) >= 1

\* The test of ProjectList.dragOverHandler:
\* event.dataTransfer && event.dataTransfer.types[0] === "text/plain"
acceptsDrag(dt) ==
    dt.present /\ Len(dt.types) >= 1 /\ dt.types[1] = "text/plain"

\* The markers after ProjectList.dragOverHandler: classList.add("droppable")
\* on the list's own ul when the drag is accepted
dragOverHandler(marker, dt, type) ==
    IF acceptsDrag(dt) THEN [marker EXCEPT ![type] = TRUE] ELSE marker

\* Mutant of dragLeaveHandler: the marker is toggled
dragLeaveHandlerToggle(marker, type) == [marker EXCEPT ![type] = ~@]

\* The markers after ProjectList.dragLeaveHandler: classList.remove("droppable")
dragLeaveHandler(marker, type) == [marker EXCEPT ![type] = FALSE]

\* this.type === "active" ? ProjectStatus.Active : ProjectStatus.Finished
statusOf(type) == IF type = "active" THEN "Active" ELSE "Finished"

\* After the module has run: new ProjectInput(), new ProjectList("active"),
\* new ProjectList("finished")
Init ==
    /\ heap = <<>>
    /\ projects = <<>>
    /\ listeners = <<"active", "finished">>
    /\ assignedProjects = [type \in ListTypes |-> <<>>]
    /\ received = [fn \in AllCallbacks |-> <<>>]
    /\ addCalls = 0
    /\ trace = <<>>
    /\ cmd = [op |-> "init"]
    /\ pre = <<>>
    /\ prior = [op |-> "other"]
    /\ form = [title |-> <<>>, description |-> <<>>, people |-> <<>>]
    /\ drag = "idle"
    /\ dataTransfer = NoTransfer
    /\ dragged = 0
    /\ droppable = [type \in ListTypes |-> FALSE]

\* projectState.addListener(fn)
AddListener(fn) ==
    /\ Len(listeners) < MaxListeners
    /\ Commit(addListener(Machine(<<>>), fn), [op |-> "addListener", fn |-> fn])
    /\ UNCHANGED <<form, dragVars>>

\* projectState.addProject(title, description, numOfPeople)
AddProject(title, description, numOfPeople, rand) ==
    /\ Len(projects) < MaxProjects
    /\ Commit(addProject(Machine(rand), title, description, numOfPeople, 0),
              [op |-> "addProject", title |-> title, description |-> description,
               people |-> numOfPeople])
    /\ UNCHANGED <<form, dragVars>>

\* projectState.moveProject(projectId, newStatus)
MoveProject(projectId, newStatus, rand) ==
    /\ Commit(moveProject(Machine(rand), projectId, newStatus, 0),
              [op |-> "moveProject", id |-> projectId, status |-> newStatus])
    /\ UNCHANGED <<form, dragVars>>

\* The user fills the form with `entered` and submits it:
\* ProjectInput.submitHandler, which starts with event.preventDefault()
Submit(entered, rand) ==
    /\ IF gatherUserInput(entered)
       THEN /\ Len(projects) < MaxProjects
            /\ LET st == addProject(Log(Machine(rand), "preventDefault", 0, 0, <<>>),
                                    entered.title, entered.description,
                                    ToNumber(entered.people), 0)
               IN  /\ Commit(st, [op |-> "submit", entered |-> entered])
                   /\ form' = IF st.thrown THEN entered ELSE clearInputs(entered)
       ELSE /\ Commit(Log(Log(Machine(rand), "preventDefault", 0, 0, <<>>),
                          "alert", 0, 0, <<>>),
                      [op |-> "submit", entered |-> entered])
            /\ form' = entered
    /\ UNCHANGED dragVars

\* dragstart on the k-th card of a list, with the DataTransfer the environment
\* provides: ProjectItem.dragStartHandler. event.dataTransfer! is checked by
\* the compiler only, so setData on null throws a TypeError
DragStart(type, k, dt) ==
    /\ drag = "idle"
    /\ k \in 1..Len(assignedProjects[type])
    /\ drag' = "dragging"
    /\ dragged' = assignedProjects[type][k]
    /\ IF dt.present
       THEN /\ dataTransfer' = dragStartHandler(dt, heap[assignedProjects[type][k]])
            /\ Commit(Machine(<<>>),
                      [op |-> "dragStart", type |-> type, channel |-> TRUE,
                       project |-> assignedProjects[type][k], marker |-> droppable])
       ELSE /\ dataTransfer' = dt
            /\ Commit(Throw(Machine(<<>>), 0, 0),
                      [op |-> "dragStart", type |-> type, channel |-> FALSE,
                       project |-> assignedProjects[type][k], marker |-> droppable])
    /\ UNCHANGED <<form, droppable>>

\* Something that is not a card is dragged into the page: no handler of a
\* card runs
ForeignDragEnter(dt) ==
    /\ drag = "idle"
    /\ drag' = "dragging"
    /\ dragged' = 0
    /\ dataTransfer' = dt
    /\ Commit(Machine(<<>>), [op |-> "dragEnter"])
    /\ UNCHANGED <<form, droppable>>

\* The gesture ends; ProjectItem.dragEndHandler does nothing
DragEnd ==
    /\ drag \in {"dragging", "dropped"}
    /\ drag' = "idle"
    /\ dragged' = 0
    /\ dataTransfer' = NoTransfer
    /\ Commit(Machine(<<>>), [op |-> "dragEnd"])
    /\ UNCHANGED <<form, droppable>>

\* dragover on a list: ProjectList.dragOverHandler
DragOver(type) ==
    /\ drag = "dragging"
    /\ droppable' = dragOverHandler(droppable, dataTransfer, type)
    /\ Commit(IF acceptsDrag(dataTransfer)
              THEN Log(Machine(<<>>), "preventDefault", 0, 0, <<>>)
              ELSE Machine(<<>>),
              [op |-> "dragOver", type |-> type, marker |-> droppable])
    /\ UNCHANGED <<form, drag, dataTransfer, dragged>>

\* dragleave on a list: ProjectList.dragLeaveHandler
DragLeave(type) ==
    /\ drag = "dragging"
    /\ droppable' = dragLeaveHandler(droppable, type)
    /\ Commit(Machine(<<>>), [op |-> "dragLeave", type |-> type, marker |-> droppable])
    /\ UNCHANGED <<form, drag, dataTransfer, dragged>>

\* drop on a list: ProjectList.dropHandler. event.dataTransfer!.getData on
\* null throws a TypeError before moveProject is reached
Drop(type) ==
    /\ drag = "dragging"
    /\ drag' = "dropped"
    /\ IF dataTransfer.present
       THEN Commit(moveProject(Machine(<<>>), getData(dataTransfer), statusOf(type), 0),
                   [op |-> "drop", type |-> type, id |-> getData(dataTransfer),
                    status |-> statusOf(type), marker |-> droppable])
       ELSE Commit(Throw(Machine(<<>>), 0, 0),
                   [op |-> "drop", type |-> type, id |-> "",
                    status |-> statusOf(type), marker |-> droppable])
    /\ UNCHANGED <<form, dataTransfer, dragged, droppable>>

\* The registry and the two lists, with passive listeners and direct calls
Next ==
    \/ \E fn \in PassiveCallbacks : AddListener(fn)
    \/ \E t \in Titles, de \in Descriptions, n \in People, r \in RandStreams(1) :
          AddProject(t, de, n, r)
    \/ \E id \in RandomIds \cup StaleIds, s \in ProjectStatus :
          MoveProject(id, s, <<>>)

Spec == Init /\ [][Next]_vars

\* The page with its form
NextForm ==
    \/ \E e \in FormEntries, r \in RandStreams(1) : Submit(e, r)
    \/ \E id \in RandomIds \cup StaleIds, s \in ProjectStatus :
          MoveProject(id, s, <<>>)

SpecForm == Init /\ [][NextForm]_vars

\* The page with its drag gestures
NextDrag ==
    \/ \E t \in Titles, de \in Descriptions, n \in {Num(PeopleMin)}, r \in RandStreams(1) :
          AddProject(t, de, n, r)
    \/ \E id \in RandomIds \cup StaleIds, s \in ProjectStatus :
          MoveProject(id, s, <<>>)
    \/ \E type \in ListTypes, k \in 1..MaxProjects, dt \in StartTransfers :
          DragStart(type, k, dt)
    \/ \E dt \in ForeignTransfers : ForeignDragEnter(dt)
    \/ \E type \in ListTypes : DragOver(type)
    \/ \E type \in ListTypes : DragLeave(type)
    \/ \E type \in ListTypes : Drop(type)
    \/ DragEnd

SpecDrag == Init /\ [][NextDrag]_vars

\* Validatable descriptors: a value and any subset of the constraint keys
ValidatableValues ==
    {Str(<<>>), Str(<<" ">>), Str(<<"a", "b">>), Str(<<" ", "a", " ">>),
     Str(<<"o", "k">>), Str(<<"v", "a", "l", "i", "d">>),
     Str(<<"\t">>), Str(<<"\n", "a", "b", "\r">>),
     Num(0), Num(1), Num(10), Num(11), NaN, Infinity(FALSE),
     ToNumber(<<"1", ".", "5">>), ToNumber(<<"1", "0", ".", "0", "1">>),
     ToNumber(<<".", "9", "9">>),
     ToNumber(<<"1", "0", ".", "0", "0", "0", "0", "0", "0", "0", "0", "0", "0", "0", "0",
                "0", "0", "1">>),
     ToNumber(<<"0", ".", "9", "9", "9", "9", "9", "9", "9", "9", "9", "9", "9", "9", "9",
                "9", "9", "9">>)}
ConstraintKeys == {"required", "minLength", "maxLength", "min", "max"}
ConstraintValues(key) ==
    CASE key = "required" -> {TRUE, FALSE}
      [] key = "minLength" -> {2, DescriptionMinLength}
      [] key = "maxLength" -> {2}
      [] key = "min" -> {PeopleMin}
      [] key = "max" -> {PeopleMax}
Validatable(value, keys, required, minLength, maxLength, min, max) ==
    [key \in {"value"} \cup keys |->
        CASE key = "value" -> value
          [] key = "required" -> required
          [] key = "minLength" -> minLength
          [] key = "maxLength" -> maxLength
          [] key = "min" -> min
          [] key = "max" -> max]

\* A call validate(validatableInput)
Validate(validatableInput) ==
    /\ cmd' = [op |-> "validate", input |-> validatableInput,
               isValid |-> validate(validatableInput)]
    /\ UNCHANGED <<registryVars, trace, pre, prior, form, dragVars>>

\* The validation predicate on its own
NextValidate ==
    \E value \in ValidatableValues, keys \in SUBSET ConstraintKeys,
       required \in ConstraintValues("required"),
       minLength \in ConstraintValues("minLength"),
       maxLength \in ConstraintValues("maxLength"),
       min \in ConstraintValues("min"), max \in ConstraintValues("max") :
        Validate(Validatable(value, keys, required, minLength, maxLength, min, max))

SpecValidate == Init /\ [][NextValidate]_vars

\* The registry with any listeners its callers register
NextOpen ==
    \/ \E fn \in ExternalCallbacks : AddListener(fn)
    \/ \E t \in Titles, de \in Descriptions, n \in People,
          r \in RandStreams(NestedAdds + 1) :
          AddProject(t, de, n, r)
    \/ \E id \in RandomIds \cup StaleIds, s \in ProjectStatus,
          r \in RandStreams(NestedAdds) :
          MoveProject(id, s, r)

SpecOpen == Init /\ [][NextOpen]_vars

\* The registry with listeners that throw
ThrowCallbacks == {"recorder", "thrower", "reentrantMove"}
NextThrow ==
    \/ \E fn \in ThrowCallbacks : AddListener(fn)
    \/ \E t \in Titles, de \in Descriptions, n \in {Num(PeopleMin)}, r \in RandStreams(1) :
          AddProject(t, de, n, r)
    \/ \E id \in RandomIds \cup StaleIds, s \in ProjectStatus :
          MoveProject(id, s, <<>>)

SpecThrow == Init /\ [][NextThrow]_vars

----------------------------------------------------------------------------
\* Properties

\* The contents of the registry
Cur == Deref(heap, projects)

\* Positions in the trace of the last command of the events of one kind
EventsOf(ev) == {j \in 1..Len(trace) : trace[j].ev = ev}

\* Position in `pre` of the first project with an id, 0 if there is none
FirstMatch(id) ==
    IF \E i \in 1..Len(pre) : pre[i].id = id
    THEN CHOOSE i \in 1..Len(pre) :
            pre[i].id = id /\ \A j \in 1..(i - 1) : pre[j].id # id
    ELSE 0

\* C1: moveProject(id, newStatus), when the project the lookup finds has
\* another status, calls every registered listener exactly once with a
\* snapshot in which that project has newStatus and all else is as before,
\* and the registry holds the same.
C1_MoveNotifiesOnceWithNewStatus ==
    (/\ cmd.op = "moveProject"
     /\ FirstMatch(cmd.id) # 0
     /\ pre[FirstMatch(cmd.id)].status # cmd.status)
    => LET moved == [pre EXCEPT ![FirstMatch(cmd.id)].status = cmd.status]
       IN  /\ Cur = moved
           /\ \A k \in 1..Len(listeners) :
                 Cardinality({j \in EventsOf("call") : trace[j].k = k}) = 1
           /\ Cardinality(EventsOf("call")) = Len(listeners)
           /\ \A j \in EventsOf("call") : trace[j].snap = moved

C1_Witness ==
    /\ cmd.op = "moveProject"
    /\ FirstMatch(cmd.id) = 2
    /\ pre[2].status # cmd.status
    /\ Len(listeners) > 2
    /\ EventsOf("call") # {}

\* Position in the registry of the project whose card the gesture started on
DraggedAt == CHOOSE k \in 1..Len(projects) : projects[k] = dragged

\* moveProject(id, newStatus), when the project the lookup finds already has
\* newStatus, leaves the registry as it was and calls no listener
C2_MoveToSameStatusIsNoOp ==
    (/\ cmd.op = "moveProject"
     /\ FirstMatch(cmd.id) # 0
     /\ pre[FirstMatch(cmd.id)].status = cmd.status)
    => /\ Cur = pre
       /\ EventsOf("call") = {}
       /\ EventsOf("applied") = {}

\* A card dropped on the list its project already belongs to leaves the
\* registry as it was and calls no listener
C2_DropOnOwnListIsNoOp ==
    (/\ cmd.op = "drop"
     /\ dragged # 0
     /\ pre[DraggedAt].status = statusOf(cmd.type))
    => /\ Cur = pre
       /\ EventsOf("call") = {}
       /\ EventsOf("applied") = {}

\* C2: moveProject(id, newStatus), when the project with that id already has
\* newStatus, changes nothing in the registry and calls no listener, and the
\* same holds when a card is dropped on the list that its project already
\* belongs to.
C2_SameStatusIsNoOp ==
    /\ C2_MoveToSameStatusIsNoOp
    /\ C2_DropOnOwnListIsNoOp

\* The drop on the own list, for cards whose id no other project has
C2_DropOnOwnListWithUniqueId ==
    (\A a, b \in 1..Len(pre) : pre[a].id = pre[b].id => a = b)
    => C2_DropOnOwnListIsNoOp

\* C3: moveProject with an id that no project has changes no project and no
\* position and calls no listener.
C3_UnknownIdIsNoOp ==
    (cmd.op = "moveProject" /\ FirstMatch(cmd.id) = 0)
    => /\ Cur = pre
       /\ EventsOf("call") = {}
       /\ EventsOf("applied") = {}

C3_Witness ==
    /\ cmd.op = "moveProject"
    /\ cmd.id \in StaleIds
    /\ Len(pre) > 1
    /\ Len(listeners) > 2
    /\ EventsOf("begin") # {}

\* C4: the registry holds as many projects as addProject was called, and so
\* does every snapshot a listener is given.
C4_LengthIsNumberOfAdds ==
    /\ Len(projects) = addCalls
    /\ Len(Cur) = addCalls
    /\ \A j \in EventsOf("call") : Len(trace[j].snap) = addCalls

C4_Witness ==
    /\ addCalls > 1
    /\ cmd.op = "moveProject"
    /\ EventsOf("call") # {}

\* C5: the projects of the registry, and of every snapshot, have pairwise
\* distinct ids.
C5_IdsAreDistinct ==
    /\ \A i, j \in 1..Len(Cur) : i # j => Cur[i].id # Cur[j].id
    /\ \A e \in EventsOf("call") :
          \A i, j \in 1..Len(trace[e].snap) :
             i # j => trace[e].snap[i].id # trace[e].snap[j].id

\* C6: addProject appends one project with the fields it was given and the
\* status Active, and leaves the projects before it as they were.
C6_AddAppendsActiveProject ==
    cmd.op = "addProject"
    => /\ Len(Cur) = Len(pre) + 1
       /\ SubSeq(Cur, 1, Len(pre)) = pre
       /\ Cur[Len(Cur)].title = cmd.title
       /\ Cur[Len(Cur)].description = cmd.description
       /\ Cur[Len(Cur)].people = cmd.people
       /\ Cur[Len(Cur)].status = "Active"
       /\ Cur[Len(Cur)].id \in RandomIds

C6_Witness ==
    /\ cmd.op = "addProject"
    /\ Len(pre) > 0
    /\ pre[1].status = "Finished"
    /\ cmd.people = Num(5)

\* The "applied" event of the fan-out that the call at position j belongs to:
\* the last one before j at the same call depth
AppliedOf(j) ==
    CHOOSE a \in EventsOf("applied") :
        /\ a < j
        /\ trace[a].d = trace[j].d
        /\ \A b \in EventsOf("applied") :
              (b < j /\ trace[b].d = trace[j].d) => b <= a

\* C7: with listeners that only work on the snapshot they are given, every
\* listener of a fan-out is given the registry as the mutation left it,
\* whatever the listeners before it did to their snapshots, and the registry
\* itself is as the mutation left it when the command returns; a command
\* that applies no mutation leaves the registry as it was.
C7_SnapshotsAreIndependent ==
    (\A k \in 1..Len(listeners) : listeners[k] \notin Reentrant)
    => /\ \A j \in EventsOf("call") :
             trace[j].snap = trace[AppliedOf(j)].snap
       /\ \A a \in EventsOf("applied") : Cur = trace[a].snap
       /\ EventsOf("applied") = {} => Cur = pre

\* C8: every snapshot handed to a listener equals the registry as it was
\* right after the mutation of its fan-out was applied, also when a listener
\* earlier in that fan-out has called addProject or moveProject.
C8_SnapshotIsStateOfItsMutation ==
    (\A k \in 1..Len(listeners) : listeners[k] \notin SnapshotMutators)
    => \A j \in EventsOf("call") :
          trace[j].snap = trace[AppliedOf(j)].snap

\* C9: a state-changing addProject or moveProject calls the listeners one
\* after the other in registration order, each returning before the next is
\* called, once per registration, and returns after the last one returned.
C9_ListenersCalledInOrder ==
    (cmd.op \in {"addProject", "moveProject"} /\ EventsOf("applied") # {})
    => LET n == Len(listeners)
       IN  /\ Len(trace) = 2 * n + 3
           /\ trace[1].ev = "begin"
           /\ trace[2].ev = "applied"
           /\ \A k \in 1..n :
                 /\ trace[2 * k + 1].ev = "call"
                 /\ trace[2 * k + 1].k = k
                 /\ trace[2 * k + 2].ev = "ret"
                 /\ trace[2 * k + 2].k = k
           /\ trace[2 * n + 3].ev = "end"
           /\ \A fn \in ListTypes \cup ExternalCallbacks :
                 Cardinality({j \in EventsOf("call") : listeners[trace[j].k] = fn})
                    = Cardinality({k \in 1..n : listeners[k] = fn})

\* The same callback is registered twice and a move has notified
C9_Witness ==
    /\ cmd.op = "moveProject"
    /\ EventsOf("applied") # {}
    /\ Cardinality({k \in 1..Len(listeners) : listeners[k] = "recorder"}) = 2
    /\ Cardinality(EventsOf("call")) = 4

\* The invalid inputs of a submit, as the error taxonomy lists them
IsBlank(s) == \A k \in 1..Len(s) : s[k] \in WhiteSpace

InvalidEntry(e) ==
    \/ IsBlank(e.title)
    \/ IsBlank(e.description)
    \/ Len(e.description) < 5
    \/ ~GreaterEq(ToNumber(e.people), Num(1))
    \/ ~LessEq(ToNumber(e.people), Num(10))

\* C10: a submit with invalid input calls addProject not at all, changes no
\* project and calls no listener; addProject is called, once, only when the
\* three fields pass validation.
C10_InvalidSubmitNeverAdds ==
    cmd.op = "submit"
    => /\ InvalidEntry(cmd.entered)
            => /\ Cur = pre
               /\ EventsOf("begin") = {}
               /\ EventsOf("call") = {}
       /\ Cardinality(EventsOf("begin")) <= 1
       /\ EventsOf("begin") # {}
            => /\ validate(titleValidatable(cmd.entered.title))
               /\ validate(descriptionValidatable(cmd.entered.description))
               /\ validate(peopleValidatable(cmd.entered.people))
               /\ ~InvalidEntry(cmd.entered)
               /\ Len(Cur) = Len(pre) + 1

\* An invalid submit came after a project was added
C10_Witness ==
    /\ cmd.op = "submit"
    /\ InvalidEntry(cmd.entered)
    /\ Len(pre) > 0
    /\ EventsOf("alert") # {}

\* The rules of the validation predicate, stated on the descriptor
RequiredRule(v) ==
    ("required" \in DOMAIN v /\ v.required)
    => (v.value.t = "string" => \E k \in 1..Len(v.value.s) : v.value.s[k] \notin WhiteSpace)
MinLengthRule(v) ==
    ("minLength" \in DOMAIN v /\ v.value.t = "string") => Len(v.value.s) >= v.minLength
MaxLengthRule(v) ==
    ("maxLength" \in DOMAIN v /\ v.value.t = "string") => Len(v.value.s) <= v.maxLength
MinRule(v) ==
    ("min" \in DOMAIN v /\ v.value.t = "number") => GreaterEq(v.value, Num(v.min))
MaxRule(v) ==
    ("max" \in DOMAIN v /\ v.value.t = "number") => LessEq(v.value, Num(v.max))

\* C11: validate returns the conjunction of the rules whose key the
\* descriptor has: required on the trimmed string form, minLength and
\* maxLength on the raw length of a string, min and max inclusive on a
\* number; the four examples of the specification come out as stated.
C11_ValidateIsConjunctionOfPresentRules ==
    /\ cmd.op = "validate"
         => (cmd.isValid <=> /\ RequiredRule(cmd.input)
                             /\ MinLengthRule(cmd.input)
                             /\ MaxLengthRule(cmd.input)
                             /\ MinRule(cmd.input)
                             /\ MaxRule(cmd.input))
    /\ ~validate([value |-> Str(<<>>), required |-> TRUE])
    /\ ~validate([value |-> Str(<<"a", "b">>), minLength |-> 5])
    /\ ~validate([value |-> Num(11), min |-> 1, max |-> 10])
    /\ validate([value |-> Str(<<"o", "k">>), required |-> TRUE])
    /\ validate([value |-> Str(<<>>)])

\* A blank-padded string passed minLength on its raw length although its
\* trimmed length is below the bound
C11_Witness ==
    /\ cmd.op = "validate"
    /\ cmd.input = [value |-> Str(<<" ", "a", " ">>), required |-> TRUE, minLength |-> 2]
    /\ cmd.isValid

\* C12: a gesture that starts on the card of project p and ends with a drop
\* on a list calls moveProject exactly once, with p's id and the status the
\* list is bound to, and after the drop p has the list's status.
C12_DropMovesDraggedProject ==
    (cmd.op = "drop" /\ dragged # 0)
    => /\ Cardinality(EventsOf("begin")) = 1
       /\ cmd.id = heap[dragged].id
       /\ cmd.status = statusOf(cmd.type)
       /\ heap[dragged].status = statusOf(cmd.type)

\* The first type a payload declares, "none" without a transfer channel or
\* without any type
DeclaredType(dt) ==
    IF dt.present /\ dt.types # <<>> THEN Head(dt.types) ELSE "none"

\* C13: the hover handler of a list accepts a drag exactly when the declared
\* type of the payload is text/plain: then it prevents the default once and
\* sets the marker of its list; for any other type, or without a transfer
\* channel, it prevents nothing and every marker stays as it was.
C13_HoverAcceptsExactlyPlainText ==
    cmd.op = "dragOver"
    => /\ IF DeclaredType(dataTransfer) = "text/plain"
          THEN /\ Cardinality(EventsOf("preventDefault")) = 1
               /\ droppable = [cmd.marker EXCEPT ![cmd.type] = TRUE]
          ELSE /\ EventsOf("preventDefault") = {}
               /\ droppable = cmd.marker
       /\ Cur = pre

\* Files hover over a list whose marker was left set by an earlier gesture
C13_Witness ==
    /\ cmd.op = "dragOver"
    /\ DeclaredType(dataTransfer) = "Files"
    /\ cmd.marker[cmd.type]
    /\ droppable[cmd.type]

\* C14: for a drag without a payload or with a payload that is not plain
\* text, no handler of a list (drag over, drag leave, drop) changes a
\* project, calls a listener or throws.
C14_IncompatibleDragIsIgnored ==
    (/\ cmd.op \in {"dragOver", "dragLeave", "drop"}
     /\ DeclaredType(dataTransfer) # "text/plain")
    => /\ Cur = pre
       /\ EventsOf("call") = {}
       /\ EventsOf("throw") = {}

\* C15: without a transfer channel the drag start handler completes without
\* an exception, attaches no payload and changes neither the registry nor a
\* marker.
C15_DragStartWithoutChannelIsSilent ==
    (cmd.op = "dragStart" /\ ~cmd.channel)
    => /\ EventsOf("throw") = {}
       /\ getData(dataTransfer) = ""
       /\ Cur = pre
       /\ droppable = cmd.marker

\* C17: after the hover-leave handler of a list has run, the marker of that
\* list is not set, whether or not it was set before, and nothing else has
\* changed: not the other marker, not the registry, and no listener was
\* called; running the handler a second time changes nothing more.
C17_LeaveClearsMarkerIdempotently ==
    /\ cmd.op = "dragLeave"
         => /\ droppable = [cmd.marker EXCEPT ![cmd.type] = FALSE]
            /\ Cur = pre
            /\ trace = <<>>
    /\ \A type \in ListTypes :
          /\ ~dragLeaveHandler(droppable, type)[type]
          /\ dragLeaveHandler(dragLeaveHandler(droppable, type), type)
                = dragLeaveHandler(droppable, type)

\* The handler ran on a list whose marker was not set while the other
\* list's marker was
C17_Witness ==
    /\ cmd.op = "dragLeave"
    /\ ~cmd.marker[cmd.type]
    /\ \E type \in ListTypes : droppable[type]
    /\ Len(pre) > 0

\* C16: when a listener throws during the fan-out of addProject or
\* moveProject, nothing runs after the throw: the fan-out calls no further
\* listener, the throwing call does not return, and the call the caller
\* issued does not complete normally; without a throw every call that began
\* has completed.
C16_ListenerFaultPropagates ==
    cmd.op \in {"addProject", "moveProject"}
    => IF EventsOf("throw") = {}
       THEN Cardinality(EventsOf("end")) = Cardinality(EventsOf("begin"))
       ELSE /\ EventsOf("throw") = {Len(trace)}
            /\ \A j \in EventsOf("end") : trace[j].d > 0
            /\ \A j \in EventsOf("call") :
                  listeners[trace[j].k] = "thrower"
                  => \A i \in EventsOf("ret") :
                        ~(trace[i].d = trace[j].d /\ trace[i].k = trace[j].k /\ i > j)

\* A listener threw after the status was changed, with a listener after it
\* in the registration order
C16_Witness ==
    /\ cmd.op = "moveProject"
    /\ EventsOf("throw") # {}
    /\ Cur # pre
    /\ \E j \in EventsOf("call") :
          listeners[trace[j].k] = "thrower" /\ trace[j].k < Len(listeners)

\* The projects of the registry with one status, in registry order
WithStatus(status) ==
    LET Has(r) == heap[r].status = status
    IN  SelectSeq(projects, Has)

\* How often a project is among the assigned projects of a list
Occurrences(type, r) ==
    Cardinality({i \in 1..Len(assignedProjects[type]) : assignedProjects[type][i] = r})

\* C18: with both lists subscribed from the start, after every addProject
\* and moveProject the active list holds exactly the registry's Active
\* projects and the finished list exactly its Finished projects, in registry
\* order; every project is in exactly one list, once.
C18_ListsPartitionRegistry ==
    /\ assignedProjects["active"] = WithStatus("Active")
    /\ assignedProjects["finished"] = WithStatus("Finished")
    /\ \A i \in 1..Len(projects) :
          Occurrences("active", projects[i]) + Occurrences("finished", projects[i]) = 1

\* A move has just changed a status and both lists show a project
C18_Witness ==
    /\ cmd.op = "moveProject"
    /\ Cur # pre
    /\ assignedProjects["active"] # <<>>
    /\ assignedProjects["finished"] # <<>>

\* C19: the registry holds the projects in the order of their addProject
\* calls in every state; moveProject changes nothing but the status of one
\* project; and a move of a project to the other status followed by a move
\* of it back, each with its notification, leaves the registry exactly as it
\* was before the two moves.
C19_MoveKeepsOrderAndRoundTrips ==
    /\ projects = [i \in 1..Len(heap) |-> i]
    /\ cmd.op = "moveProject"
         => /\ Len(Cur) = Len(pre)
            /\ \A i \in 1..Len(pre) : [Cur[i] EXCEPT !.status = pre[i].status] = pre[i]
    /\ (/\ cmd.op = "moveProject"
        /\ prior.op = "moveProject"
        /\ prior.id = cmd.id
        /\ prior.status # cmd.status)
       => /\ Cur = prior.pre
          /\ Cardinality(EventsOf("applied")) = 1
          /\ Cardinality(EventsOf("call")) = Len(listeners)

\* The second of two projects was moved to Finished and back to Active
C19_Witness ==
    /\ cmd.op = "moveProject"
    /\ prior.op = "moveProject"
    /\ prior.id = cmd.id
    /\ prior.status = "Finished"
    /\ cmd.status = "Active"
    /\ FirstMatch(cmd.id) = 2
    /\ Cur # pre
    /\ Cur = prior.pre

\* C20: moveProject examines and changes only the first project in
\* insertion order with the id: every other project stays as it was, and
\* when that first project already has newStatus nothing changes and no
\* listener is called, even if a later project with the same id has another
\* status.
C20_FirstMatchOnly ==
    cmd.op = "moveProject"
    => /\ Len(Cur) = Len(pre)
       /\ \A i \in 1..Len(pre) : i # FirstMatch(cmd.id) => Cur[i] = pre[i]
       /\ (FirstMatch(cmd.id) # 0 /\ pre[FirstMatch(cmd.id)].status = cmd.status)
          => /\ Cur = pre
             /\ EventsOf("applied") = {}
             /\ EventsOf("call") = {}

\* Two projects share the id; the first has newStatus, the second has not
C20_Witness ==
    /\ cmd.op = "moveProject"
    /\ Len(pre) = 2
    /\ pre[1].id = cmd.id
    /\ pre[2].id = cmd.id
    /\ pre[1].status = cmd.status
    /\ pre[2].status # cmd.status
    /\ Cur[2].status # cmd.status

============================================================================
